---- MODULE Spec2Model ----
(***************************************************************************)
(* The Interview component (src/src/app/components/PreCheck.tsx, lines     *)
(* 121-838) as a state machine.  React state and refs are the variables;   *)
(* every event handler, promise continuation, timer and browser event is   *)
(* one action.  A handler created in render R reads the React state of R:  *)
(* the values a capture's closures hold are kept in the capture's record   *)
(* (snapAi, snapThread, snapProc).  Handlers are operators from a state    *)
(* record to a state record, so that a handler's calls compose.            *)
(***************************************************************************)
EXTENDS Integers, Sequences, FiniteSets, TLC

VARIABLES
    qaLogs,             \* useState<Array<QA>>: sequence of [q, aText, durationSec]
    recordingState,     \* useState: 0 idle, 1 recording
    aiState,            \* useState: 0 idle, 1 asking, 2 question done
    isProcessing,       \* useState: a transcription is in flight
    errorMessage,       \* useState: "" or the message shown
    threadId,           \* useState: 0 stands for "", n > 0 for the n-th thread created
    isInitialized,      \* useState
    mediaRecorderRef,   \* ref: 0 (null) or the capture whose MediaRecorder it holds
    audioChunksRef,     \* ref: length of the chunk array
    audioContextRef,    \* ref: 0 (null) or the capture whose AudioContext it holds
    animationFrameRef,  \* ref: 0 (null) or the capture whose drawWaveform asked the last frame
    streamRef,          \* ref: 0 (null) or the capture whose MediaStream it holds
    audioRef,           \* ref: the playback element [created, src, playing]
    isInitializingRef,  \* ref
    caps,               \* browser objects and closures of each capture (one per start click)
    ncap,               \* number of captures started so far
    jobs,               \* startNextQuestion invocations: 0 from initInterview, k from capture k's timer
    threadReq,          \* the createThread request [pc: "none" | "pending" | "done", snapAi: aiState of the render whose effect sent it]
    threadCalls,        \* number of createThread requests issued
    deliveries,         \* webhook requests sent by handleEndInterview, in order
    webhookPending,     \* number of webhook requests not yet answered
    onCompleteCalls,    \* number of calls of props.onComplete
    lifecycle,          \* "constructed", "mounted", "unmounted"
    cleanupRegistered,  \* the last run of the mount effect returned its cleanup function
    cache,              \* localStorage 'aiInterviewCache': [kind: "missing" | "garbage" | "json", contact]
    answerWrites,       \* history: answerWrites[i] = number of times Turn i's answer was written
    route,              \* the /api/assistant route handling one request (src/unnamed/part_000)
    micTest,            \* the MicTest component (src/app/components/MicTest.tsx)
    numericPad,         \* the NumericPad component (src/app/components/NumericPad.tsx)
    page                \* the wizard, Home (src/app/page.tsx)

vars == <<qaLogs, recordingState, aiState, isProcessing, errorMessage, threadId,
          isInitialized, mediaRecorderRef, audioChunksRef, audioContextRef,
          animationFrameRef, streamRef, audioRef, isInitializingRef, caps, ncap,
          jobs, threadReq, threadCalls, deliveries, webhookPending, onCompleteCalls,
          lifecycle, cleanupRegistered, cache, answerWrites,
          route, micTest, numericPad, page>>

\* ---------------------------------------------------------------- bounds
MaxCaptures == 2
MaxEnds == 1
MaxDuration == 1

CapIds == 1..MaxCaptures
JobIds == 0..MaxCaptures
\* Texts the remote services may return.
Questions == {"Q1", "Q2"}
Texts == {"", "A1"}
Durations == 1..MaxDuration

\* ---------------------------------------------------------------- messages
\* The Korean literals of the source are written as ASCII tags, one per literal.
MsgQuestionFailed == "ERR: cannot generate question, retry"      \* line 309
MsgServer == "ERR: server connection problem, retry"             \* lines 314, 547
MsgInitFailed == "ERR: interview initialisation failed"          \* line 347
MsgInitError == "ERR: error during interview initialisation"     \* line 351
MsgMic == "ERR: cannot access microphone"                        \* line 461
MsgWhisper == "ERR: speech recognition failed, retry"            \* line 543
MsgSession == "ERR: interview session invalid"                   \* line 538
SeedPrompt == "SEED: start the interview, first question please" \* line 343
NoRecords == "NO INTERVIEW RECORDS"                              \* line 593

\* ---------------------------------------------------------------- state record
Cur ==
    [qaLogs |-> qaLogs, recordingState |-> recordingState, aiState |-> aiState,
     isProcessing |-> isProcessing, errorMessage |-> errorMessage,
     threadId |-> threadId, isInitialized |-> isInitialized,
     mediaRecorderRef |-> mediaRecorderRef, audioChunksRef |-> audioChunksRef,
     audioContextRef |-> audioContextRef, animationFrameRef |-> animationFrameRef,
     streamRef |-> streamRef, audioRef |-> audioRef,
     isInitializingRef |-> isInitializingRef, caps |-> caps, ncap |-> ncap,
     jobs |-> jobs, threadReq |-> threadReq, threadCalls |-> threadCalls,
     deliveries |-> deliveries, webhookPending |-> webhookPending,
     onCompleteCalls |-> onCompleteCalls, lifecycle |-> lifecycle,
     cleanupRegistered |-> cleanupRegistered, cache |-> cache,
     answerWrites |-> answerWrites, route |-> route,
     micTest |-> micTest, numericPad |-> numericPad, page |-> page]

Set(s) ==
    /\ qaLogs' = s.qaLogs
    /\ recordingState' = s.recordingState
    /\ aiState' = s.aiState
    /\ isProcessing' = s.isProcessing
    /\ errorMessage' = s.errorMessage
    /\ threadId' = s.threadId
    /\ isInitialized' = s.isInitialized
    /\ mediaRecorderRef' = s.mediaRecorderRef
    /\ audioChunksRef' = s.audioChunksRef
    /\ audioContextRef' = s.audioContextRef
    /\ animationFrameRef' = s.animationFrameRef
    /\ streamRef' = s.streamRef
    /\ audioRef' = s.audioRef
    /\ isInitializingRef' = s.isInitializingRef
    /\ caps' = s.caps
    /\ ncap' = s.ncap
    /\ jobs' = s.jobs
    /\ threadReq' = s.threadReq
    /\ threadCalls' = s.threadCalls
    /\ deliveries' = s.deliveries
    /\ webhookPending' = s.webhookPending
    /\ onCompleteCalls' = s.onCompleteCalls
    /\ lifecycle' = s.lifecycle
    /\ cleanupRegistered' = s.cleanupRegistered
    /\ cache' = s.cache
    /\ answerWrites' = s.answerWrites
    /\ route' = s.route
    /\ micTest' = s.micTest
    /\ numericPad' = s.numericPad
    /\ page' = s.page

NoCap ==
    [mic |-> "none",        \* MediaStream: "none", "pending", "live", "ended", "denied"
     recorder |-> "none",   \* MediaRecorder: "none", "recording", "stopping" (inactive, stop event queued), "inactive"
     ctx |-> "none",        \* AudioContext: "none", "running", "closed"
     frame |-> FALSE,       \* an animation frame of this capture's drawWaveform is scheduled
     snapAi |-> 0, snapThread |-> 0, snapProc |-> FALSE,   \* state of the render that started it
     whisper |-> "none",    \* transcription request: "none", "inflight", "done"
     timer |-> "none",      \* the 1-second next-question timer: "none", "armed", "fired"
     text |-> "", dur |-> 0]

NoJob == [pc |-> "none", thread |-> 0, msg |-> "", q |-> ""]

\* ---------------------------------------------------------------- browser
\* MediaStreamTrack.stop() on every track of capture k's stream.  A MediaRecorder
\* whose stream has no live track left goes inactive and queues its stop event.
stopTracks(s, k) ==
    IF k = 0 \/ s.caps[k].mic # "live" THEN s
    ELSE [s EXCEPT !.caps[k].mic = "ended",
                   !.caps[k].recorder =
                       IF @ = "recording" THEN "stopping" ELSE @]

\* cancelAnimationFrame(id): the id kept in animationFrameRef is the last one
\* asked by capture k's drawWaveform; cancelling a frame that already ran does nothing.
cancelFrame(s, k) ==
    IF k = 0 THEN s ELSE [s EXCEPT !.caps[k].frame = FALSE]

\* canvasRef.current: the canvas is rendered only while recordingState = 1.
canvasMounted(s) == s.lifecycle = "mounted" /\ s.recordingState = 1

\* ---------------------------------------------------------------- handlers
cleanupAudio(s) ==
    LET s1 == cancelFrame(s, s.animationFrameRef)
        s2 == stopTracks(s1, s1.streamRef)
        k == s2.audioContextRef
    IN IF k # 0 /\ s2.caps[k].ctx # "closed"
       THEN [s2 EXCEPT !.caps[k].ctx = "closed"]
       ELSE s2

stopRecording(s) ==
    LET r == s.mediaRecorderRef
        s1 == IF r # 0 /\ s.caps[r].recorder = "recording"
              THEN [s EXCEPT !.caps[r].recorder = "stopping"]
              ELSE s
        s2 == IF s1.animationFrameRef # 0
              THEN [cancelFrame(s1, s1.animationFrameRef) EXCEPT !.animationFrameRef = 0]
              ELSE s1
    IN IF s2.streamRef # 0
       THEN [stopTracks(s2, s2.streamRef) EXCEPT !.streamRef = 0]
       ELSE s2

\* One run of drawWaveform for capture k's chain (its first call or a frame callback).
drawWaveform(s, k) ==
    IF s.audioContextRef = 0 \/ ~canvasMounted(s)
    THEN s
    ELSE [s EXCEPT !.caps[k].frame = TRUE, !.animationFrameRef = k]

\* ---------------------------------------------------------------- React
\* effectRun without the guard of line 322.
effectRun_noGuard(s) ==
    [s EXCEPT !.isInitializingRef = TRUE,
              !.threadReq = [pc |-> "pending", snapAi |-> s.aiState],
              !.threadCalls = @ + 1,
              !.cleanupRegistered = TRUE]

\* The body of the mount effect (lines 320-365): it starts initInterview unless
\* an initialisation is running or done, and only then returns its cleanup.
effectRun(s) ==
    IF s.isInitializingRef \/ s.isInitialized
    THEN [s EXCEPT !.cleanupRegistered = FALSE]
    ELSE [s EXCEPT !.isInitializingRef = TRUE,
                   !.threadReq = [pc |-> "pending", snapAi |-> s.aiState],
                   !.threadCalls = @ + 1,
                   !.cleanupRegistered = TRUE]

\* The cleanup the effect returned (lines 361-364).
effectCleanup(s) ==
    IF s.cleanupRegistered THEN cleanupAudio(stopRecording(s)) ELSE s

\* The render that follows a handler: state set on an unmounted component is
\* dropped; a change of the effect's dependencies [isInitialized, startNextQuestion]
\* (startNextQuestion is rebuilt when aiState changes) runs the previous cleanup
\* and then the effect again.
render(old, new) ==
    IF old.lifecycle = "unmounted"
    THEN [new EXCEPT !.qaLogs = old.qaLogs, !.recordingState = old.recordingState,
                     !.aiState = old.aiState, !.isProcessing = old.isProcessing,
                     !.errorMessage = old.errorMessage, !.threadId = old.threadId,
                     !.isInitialized = old.isInitialized,
                     !.answerWrites = old.answerWrites]
    ELSE IF new.lifecycle = "mounted"
            /\ (new.aiState # old.aiState \/ new.isInitialized # old.isInitialized)
    THEN effectRun(effectCleanup(new))
    ELSE new

\* The parent's handleInterviewComplete sets currentStep to 4, which unmounts the
\* component (src/src/app/page.tsx lines 101-103, 124-126).
handleInterviewComplete(p) == [p EXCEPT !.currentStep = 4]

onComplete(s) ==
    LET s1 == [s EXCEPT !.onCompleteCalls = @ + 1,
                        !.page = handleInterviewComplete(@)]
    IN IF s1.lifecycle = "mounted"
       THEN [effectCleanup(s1) EXCEPT !.lifecycle = "unmounted",
                                      !.cleanupRegistered = FALSE]
       ELSE s1

\* ---------------------------------------------------------------- playback and questions
\* playTTS that leaves the playback element as it is.
playTTS_noPause(s, j) ==
    [s EXCEPT !.aiState = 1,
              !.audioRef = [@ EXCEPT !.created = TRUE],
              !.jobs[j].pc = "tts"]

\* playTTS up to its await of the /api/tts request (lines 205-236), for job j.
playTTS(s, j) ==
    [s EXCEPT !.aiState = 1,
              !.audioRef = IF @.created
                           THEN [@ EXCEPT !.playing = FALSE, !.src = -1]
                           ELSE [created |-> TRUE, src |-> -1, playing |-> FALSE],
              !.jobs[j].pc = "tts"]

\* onended without setAiState(2).
onended_noState(s) ==
    [s EXCEPT !.audioRef = [@ EXCEPT !.playing = FALSE]]

\* The onended handler playTTS installs on the playback element (lines 222-229).
onended(s) ==
    [s EXCEPT !.audioRef = [@ EXCEPT !.playing = FALSE],
              !.aiState = 2]

\* What initInterview does once its await of startNextQuestion returns (lines 345, 354).
initDone(s, j) ==
    IF j = 0
    THEN [s EXCEPT !.isInitialized = TRUE, !.isInitializingRef = FALSE]
    ELSE s

\* playTTSResume without setAiState(2) in the else branch and the outer catch.
playTTSResume_failSilent(s, j, outcome) ==
    LET s1 == [s EXCEPT !.jobs[j].pc = "done"]
    IN CASE outcome = "play" ->
              [s1 EXCEPT !.audioRef = [@ EXCEPT !.src = j, !.playing = TRUE]]
         [] outcome = "reject" ->
              [s1 EXCEPT !.audioRef = [@ EXCEPT !.src = j, !.playing = FALSE],
                         !.aiState = 2]
         [] OTHER -> s1

\* playTTS after the /api/tts response (lines 238-266).
\* outcome: "play" audio received and play() resolved; "reject" play() rejected
\* (the assignment of src at line 244 has ended whatever the element was playing);
\* "fail" non-2xx, no audio field, or the request threw.
playTTSResume(s, j, outcome) ==
    LET s1 == [s EXCEPT !.jobs[j].pc = "done"]
    IN CASE outcome = "play" ->
              [s1 EXCEPT !.audioRef = [@ EXCEPT !.src = j, !.playing = TRUE]]
         [] outcome = "reject" ->
              [s1 EXCEPT !.audioRef = [@ EXCEPT !.src = j, !.playing = FALSE],
                         !.aiState = 2]
         [] OTHER -> [s1 EXCEPT !.aiState = 2]

\* startNextQuestion up to its await of the sendMessage request (lines 270-289).
\* closureAi is the aiState of the render in which this startNextQuestion was built.
startNextQuestion(s, j, closureAi, currentThreadId, userMessage) ==
    IF closureAi = 1
    THEN s
    ELSE [s EXCEPT !.aiState = 1,
                   !.jobs[j] = [pc |-> "send", thread |-> currentThreadId,
                                msg |-> userMessage, q |-> ""]]

\* startNextQuestionResume whose failure branches leave aiState as it is.
startNextQuestionResume_keepsSpeaking(s, j, outcome, q) ==
    CASE outcome = "ok" ->
           playTTS([s EXCEPT !.qaLogs = Append(@, [q |-> q, aText |-> "", durationSec |-> 0]),
                             !.answerWrites = Append(@, 0),
                             !.jobs[j].q = q], j)
      [] outcome = "error" ->
           [s EXCEPT !.errorMessage = MsgQuestionFailed, !.jobs[j].pc = "done"]
      [] OTHER ->
           [s EXCEPT !.errorMessage = MsgServer, !.jobs[j].pc = "done"]

\* startNextQuestion after the sendMessage response (lines 291-316).
\* outcome: "ok" 2xx with a message q; "error" non-2xx or no message; "throw".
startNextQuestionResume(s, j, outcome, q) ==
    CASE outcome = "ok" ->
           playTTS([s EXCEPT !.qaLogs = Append(@, [q |-> q, aText |-> "", durationSec |-> 0]),
                             !.answerWrites = Append(@, 0),
                             !.jobs[j].q = q], j)
      [] outcome = "error" ->
           [s EXCEPT !.errorMessage = MsgQuestionFailed, !.aiState = 0,
                     !.jobs[j].pc = "done"]
      [] OTHER ->
           [s EXCEPT !.errorMessage = MsgServer, !.aiState = 0,
                     !.jobs[j].pc = "done"]

\* initInterview after the createThread response (lines 338-355).
initInterviewResume(s, outcome) ==
    LET s0 == [s EXCEPT !.threadReq.pc = "done"]
    IN CASE outcome = "ok" ->
              LET s1 == [s0 EXCEPT !.threadId = s0.threadCalls]
                  s2 == startNextQuestion(s1, 0, s0.threadReq.snapAi,
                                          s0.threadCalls, SeedPrompt)
              IN IF s2.jobs[0].pc = "send" THEN s2 ELSE initDone(s2, 0)
         [] outcome = "error" ->
              [s0 EXCEPT !.errorMessage = MsgInitFailed, !.isInitializingRef = FALSE]
         [] OTHER ->
              [s0 EXCEPT !.errorMessage = MsgInitError, !.isInitializingRef = FALSE]

\* ---------------------------------------------------------------- capture
\* initializeRecording up to its await of getUserMedia (lines 406-414), for the
\* new capture k; the closures it builds later hold the state of this render.
initializeRecording(s, k) ==
    LET s1 == stopTracks(s, s.streamRef)
    IN [s1 EXCEPT !.ncap = k,
                  !.caps[k] = [NoCap EXCEPT !.mic = "pending",
                                            !.snapAi = s.aiState,
                                            !.snapThread = s.threadId,
                                            !.snapProc = s.isProcessing]]

\* initializeRecording after getUserMedia resolved (lines 415-457).
initializeRecordingResume(s, k) ==
    LET s1 == [s EXCEPT !.streamRef = k,
                        !.mediaRecorderRef = k,
                        !.audioChunksRef = 0,
                        !.audioContextRef = k,
                        !.caps[k].mic = "live",
                        !.caps[k].ctx = "running",
                        !.caps[k].recorder = "recording"]
    IN drawWaveform(s1, k)

\* initializeRecording when, after getUserMedia resolved, a later statement of the
\* try block throws: at = "recorder" new MediaRecorder (line 418), "context" new
\* AudioContext (line 433), "start" mediaRecorder.start() (line 454).  The catch
\* block (lines 459-463) sets the message and the flag and releases nothing.
initializeRecordingThrow(s, k, at) ==
    LET s1 == [s EXCEPT !.streamRef = k, !.caps[k].mic = "live"]
        s2 == IF at = "recorder" THEN s1
              ELSE [s1 EXCEPT !.mediaRecorderRef = k,
                              !.audioChunksRef = 0,
                              !.caps[k].recorder = "inactive"]
        s3 == IF at = "start"
              THEN [s2 EXCEPT !.audioContextRef = k, !.caps[k].ctx = "running"]
              ELSE s2
    IN [s3 EXCEPT !.errorMessage = MsgMic, !.recordingState = 0]

\* initializeRecording when getUserMedia rejected (lines 459-463).
initializeRecordingCatch(s, k) ==
    [s EXCEPT !.caps[k].mic = "denied",
              !.errorMessage = MsgMic,
              !.recordingState = 0]

\* processAudioToText up to its await of the /api/whisper request (lines 484-515),
\* called by the onstop handler of capture k's recorder; isProcessing is the one
\* of the render that built the handler.
processAudioToText(s, k, recordDuration) ==
    IF s.audioChunksRef = 0 THEN s
    ELSE IF s.caps[k].snapProc THEN s
    ELSE [s EXCEPT !.isProcessing = TRUE,
                   !.caps[k].whisper = "inflight",
                   !.caps[k].dur = recordDuration]

\* The setQaLogs updater of lines 521-529: fills the last Turn.
fillLastTurn(logs, text, recordDuration) ==
    IF Len(logs) > 0
    THEN [logs EXCEPT ![Len(logs)] = [@ EXCEPT !.aText = text,
                                               !.durationSec = recordDuration]]
    ELSE logs

\* History of the same updater: one more write to the last Turn.
countWrite(writes) ==
    IF Len(writes) > 0
    THEN [writes EXCEPT ![Len(writes)] = @ + 1]
    ELSE writes

\* processAudioToTextResume whose finally block does not clear isProcessing when
\* the request failed.
processAudioToTextResume_noFinally(s, k, outcome, text) ==
    CASE outcome = "ok" /\ text # "" ->
           [s EXCEPT !.qaLogs = fillLastTurn(@, text, s.caps[k].dur),
                     !.answerWrites = countWrite(@),
                     !.caps[k].timer = "armed",
                     !.caps[k].text = text,
                     !.isProcessing = FALSE, !.caps[k].whisper = "done"]
      [] outcome = "throw" ->
           [s EXCEPT !.errorMessage = MsgServer, !.caps[k].whisper = "done"]
      [] OTHER ->
           [s EXCEPT !.errorMessage = MsgWhisper, !.caps[k].whisper = "done"]

\* processAudioToText after the /api/whisper response (lines 517-550).
\* outcome: "ok" 2xx with data.text = text; "error" non-2xx; "throw".
processAudioToTextResume(s, k, outcome, text) ==
    LET s1 == CASE outcome = "ok" /\ text # "" ->
                     [s EXCEPT !.qaLogs = fillLastTurn(@, text, s.caps[k].dur),
                               !.answerWrites = countWrite(@),
                               !.caps[k].timer = "armed",
                               !.caps[k].text = text]
                [] outcome = "throw" -> [s EXCEPT !.errorMessage = MsgServer]
                [] OTHER -> [s EXCEPT !.errorMessage = MsgWhisper]
    IN [s1 EXCEPT !.isProcessing = FALSE, !.caps[k].whisper = "done"]

\* The setTimeout callback of lines 532-540, of capture k's closure.
nextQuestionTimer(s, k) ==
    LET s1 == [s EXCEPT !.caps[k].timer = "fired"]
    IN IF s1.caps[k].snapThread # 0
       THEN startNextQuestion(s1, k, s1.caps[k].snapAi, s1.caps[k].snapThread,
                              s1.caps[k].text)
       ELSE [s1 EXCEPT !.errorMessage = MsgSession]

\* toggleRecording without the aiState half of its guard.
toggleRecording_noAiGuard(s) ==
    IF s.isProcessing THEN s
    ELSE LET newRecordingState == IF s.recordingState = 0 THEN 1 ELSE 0
             s1 == [s EXCEPT !.recordingState = newRecordingState]
         IN IF newRecordingState = 1
            THEN initializeRecording(s1, s.ncap + 1)
            ELSE stopRecording(s1)

\* Lines 554-569.
toggleRecording(s) ==
    IF s.aiState = 1 \/ s.isProcessing THEN s
    ELSE LET newRecordingState == IF s.recordingState = 0 THEN 1 ELSE 0
             s1 == [s EXCEPT !.recordingState = newRecordingState]
         IN IF newRecordingState = 1
            THEN initializeRecording(s1, s.ncap + 1)
            ELSE stopRecording(s1)

\* ---------------------------------------------------------------- end of session
\* Lines 588-606.  "Question : " and ", Answer : " stand for the Korean labels.
\* serializeFrom putting the separator after every Turn, the last included.
RECURSIVE serializeFrom_trailing(_, _)
serializeFrom_trailing(logs, index) ==
    IF index > Len(logs) THEN ""
    ELSE "Question : " \o logs[index].q \o ", Answer : " \o logs[index].aText
         \o ", "
         \o serializeFrom_trailing(logs, index + 1)

RECURSIVE serializeFrom(_, _)
serializeFrom(logs, index) ==
    IF index > Len(logs) THEN ""
    ELSE "Question : " \o logs[index].q \o ", Answer : " \o logs[index].aText
         \o (IF index < Len(logs) THEN ", " ELSE "")
         \o serializeFrom(logs, index + 1)

\* interviewContent testing for answered Turns instead of for Turns.
interviewContent_noAnswers(logs) ==
    IF \A i \in 1..Len(logs) : logs[i].aText = "" THEN NoRecords
    ELSE serializeFrom(logs, 1)

interviewContent(logs) ==
    IF Len(logs) = 0 THEN NoRecords ELSE serializeFrom(logs, 1)

\* Lines 609-638.  Strings are sequences of one-character strings.
Digit == {"0", "1", "2", "3", "4", "5", "6", "7", "8", "9"}
IsDigit(c) == c \in Digit
digitsOf(raw) == SelectSeq(raw, IsDigit)
substr(str, from, len) ==
    SubSeq(str, from + 1, IF from + len > Len(str) THEN Len(str) ELSE from + len)

\* formatContact grouping ten digits like eleven.
formatContact_tenAsEleven(rawPhoneNumber) ==
    LET digits == digitsOf(rawPhoneNumber)
    IN IF Len(rawPhoneNumber) = 0 THEN <<>>
       ELSE IF Len(digits) \in {10, 11}
       THEN substr(digits, 0, 3) \o <<"-">> \o substr(digits, 3, 4) \o <<"-">>
            \o substr(digits, 7, Len(digits))
       ELSE rawPhoneNumber

formatContact(rawPhoneNumber) ==
    LET digits == digitsOf(rawPhoneNumber)
    IN IF Len(rawPhoneNumber) = 0 THEN <<>>
       ELSE IF Len(digits) = 11
       THEN substr(digits, 0, 3) \o <<"-">> \o substr(digits, 3, 4) \o <<"-">>
            \o substr(digits, 7, Len(digits))
       ELSE IF Len(digits) = 10
       THEN substr(digits, 0, 3) \o <<"-">> \o substr(digits, 3, 3) \o <<"-">>
            \o substr(digits, 6, Len(digits))
       ELSE rawPhoneNumber

contactNumber(c) ==
    IF c.kind = "json" THEN formatContact(c.contact) ELSE <<>>

\* handleEndInterview up to its await of the webhook request (lines 572-648).
handleEndInterview(s) ==
    LET s1 == cleanupAudio(stopRecording(s))
        s2 == IF s1.audioRef.created
              THEN [s1 EXCEPT !.audioRef = [@ EXCEPT !.playing = FALSE, !.src = -1]]
              ELSE s1
    IN [s2 EXCEPT !.aiState = 0,
                  !.recordingState = 0,
                  !.isProcessing = FALSE,
                  !.deliveries = Append(@, [interviewlog |-> interviewContent(s.qaLogs),
                                            contact |-> contactNumber(s.cache)]),
                  !.webhookPending = @ + 1]

\* handleEndInterviewResume with onComplete at the end of the try block instead
\* of in finally.
handleEndInterviewResume_inTry(s, outcome) ==
    IF outcome = "throw"
    THEN [s EXCEPT !.webhookPending = @ - 1]
    ELSE onComplete([s EXCEPT !.webhookPending = @ - 1])

\* handleEndInterview after the webhook request settled (lines 650-660): every
\* outcome is only logged, and the finally block calls onComplete.
handleEndInterviewResume(s, outcome) ==
    onComplete([s EXCEPT !.webhookPending = @ - 1])

\* ---------------------------------------------------------------- specification
\* ---------------------------------------------------------------- /api/assistant
\* src/unnamed/part_000, lines 1-142.
maxAttempts == 60

\* Run statuses of the remote service; "throw" stands for a rejected call.
RunStatuses == {"queued", "in_progress", "requires_action", "cancelling",
                "completed", "failed", "cancelled", "expired", "incomplete"}

\* pc: "idle", "threadsCreate", "messagesCreate", "runsCreate", "retrieve", "sleep",
\* "messagesList", "responded"; i is the loop variable of waitForRunCompletion;
\* retrievals counts the runs.retrieve calls of the request; response is what the
\* client receives: status 0 = none yet, kind "threadId", "message" (the text of
\* the assistant's latest message), "fallback" (the literal of line 110),
\* "error" (a body with an error field), "unhandled" (the framework's answer to
\* a rejected handler).
RouteIdle ==
    [pc |-> "idle", i |-> 0, retrievals |-> 0, runStatus |-> "",
     response |-> [status |-> 0, kind |-> ""]]

respond(r, status, kind) ==
    [r EXCEPT !.pc = "responded", !.response = [status |-> status, kind |-> kind]]

\* Lines 60-80, up to the await of messages.create.
handleSendMessage(r, thread, message) ==
    IF thread = "" THEN respond(r, 400, "error")
    ELSE IF message = "" THEN respond(r, 400, "error")
    ELSE [r EXCEPT !.pc = "messagesCreate"]

\* Lines 22-47, up to the first await after the body was read.  bodyOk = FALSE:
\* request.json() rejects.
POST(r, bodyOk, action, thread, message) ==
    LET r0 == RouteIdle
    IN IF ~bodyOk THEN respond(r0, 500, "error")
       ELSE CASE action = "createThread" -> [r0 EXCEPT !.pc = "threadsCreate"]
              [] action = "sendMessage" -> handleSendMessage(r0, thread, message)
              [] OTHER -> respond(r0, 400, "error")

\* Lines 52-55; POST returns the promise of handleCreateThread without awaiting
\* it (line 30), so its rejection is not caught by POST's catch block.
handleCreateThread(r, ok) ==
    IF ok THEN respond(r, 200, "threadId") ELSE respond(r, 500, "unhandled")

\* The catch block of handleSendMessage (lines 113-119).
sendMessageCatch(r) == respond(r, 500, "error")

\* waitForRunCompletion without the loop bound.
waitForRunCompletion_unbounded(r) ==
    [r EXCEPT !.pc = "retrieve", !.retrievals = @ + 1]

\* The head of the for loop of waitForRunCompletion (lines 126-127, 141).
waitForRunCompletion(r) ==
    IF r.i < maxAttempts
    THEN [r EXCEPT !.pc = "retrieve", !.retrievals = @ + 1]
    ELSE sendMessageCatch(r)

\* Lines 129-138, after runs.retrieve settled with status (or "throw").
waitForRunCompletionResume(r, status) ==
    IF status = "completed" THEN [r EXCEPT !.pc = "messagesList", !.runStatus = status]
    ELSE IF status \in {"failed", "cancelled", "expired", "throw"} THEN sendMessageCatch(r)
    ELSE [r EXCEPT !.pc = "sleep"]

\* Lines 91-112, after messages.list settled.  latest: "text" the newest assistant
\* message starts with a text part; "image" it starts with another part;
\* "emptyContent" it has no part (content[0] is undefined, line 101 throws);
\* "noAssistant" the list holds no assistant message; "throw" the call rejected.
handleSendMessageResume(r, latest) ==
    CASE latest = "text" -> respond(r, 200, "message")
      [] latest \in {"image", "noAssistant"} -> respond(r, 200, "fallback")
      [] OTHER -> sendMessageCatch(r)

\* ---------------------------------------------------------------- MicTest
\* The microphone self-test (src/app/components/MicTest.tsx).  micTest holds the
\* component's state and refs; atts[a] holds the browser objects of the a-th
\* call of startRecording that reached getUserMedia.
MaxAttempts == 3
AttIds == 1..MaxAttempts

MsgUnsupported == "ERR: browser does not support recording"      \* MicTest.tsx line 72
MsgPermission == "ERR: NotAllowedError"                          \* lines 120-124
MsgMicFailed == "ERR: getUserMedia rejected"                     \* line 120
MsgConvertFailed == "ERR: speech conversion failed"              \* line 270
MsgFetchFailed == "ERR: fetch rejected"                          \* line 284
MsgBadJson == "ERR: response is not JSON"                        \* lines 273, 284

NoAtt ==
    [mic |-> "none",        \* MediaStream: "none", "pending", "live", "ended", "failed"
     recorder |-> "none",   \* MediaRecorder: "none", "recording", "stopping", "inactive"
     ctx |-> "none",        \* AudioContext: "none", "running", "closed"
     frame |-> FALSE,       \* a frame asked by this attempt's draw is scheduled
     timer |-> FALSE,       \* this attempt's setInterval is active
     whisper |-> "none"]    \* /api/whisper request: "none", "pending", "done"

MicIdle ==
    [isRecording |-> FALSE, isRecordingComplete |-> FALSE, isConverting |-> FALSE,
     conversionResult |-> <<>>, isSuccess |-> "null", errorMessage |-> "",
     isLoading |-> FALSE, micPermission |-> "prompt", isTimerComplete |-> FALSE,
     remainingTime |-> 5,
     recorderRef |-> 0, audioContextRef |-> 0, animationFrameRef |-> 0,
     streamRef |-> 0, timerRef |-> 0,
     atts |-> [a \in AttIds |-> NoAtt], natt |-> 0,
     lifecycle |-> "mounted", completeCalls |-> 0]

\* The fields held by useState: a setter called after unmount changes nothing.
micCommit(old, new) ==
    IF old.lifecycle = "mounted" THEN new
    ELSE [new EXCEPT !.isRecording = old.isRecording,
                     !.isRecordingComplete = old.isRecordingComplete,
                     !.isConverting = old.isConverting,
                     !.conversionResult = old.conversionResult,
                     !.isSuccess = old.isSuccess,
                     !.errorMessage = old.errorMessage,
                     !.isLoading = old.isLoading,
                     !.micPermission = old.micPermission,
                     !.isTimerComplete = old.isTimerComplete,
                     !.remainingTime = old.remainingTime]

\* stream.getTracks().forEach(track => track.stop()); a recorder whose tracks
\* ended stops.
micStopTracks(m, a) ==
    IF a = 0 \/ m.atts[a].mic # "live" THEN m
    ELSE [m EXCEPT !.atts[a].mic = "ended",
                   !.atts[a].recorder = IF @ = "recording" THEN "stopping" ELSE @]

\* if (audioContextRef.current && state !== 'closed') audioContextRef.current.close()
micCloseContext(m) ==
    LET c == m.audioContextRef
    IN IF c # 0 /\ m.atts[c].ctx # "closed"
       THEN [m EXCEPT !.atts[c].ctx = "closed"] ELSE m

\* Whitespace as String.prototype.trim sees it; texts are character sequences.
WhiteSpace == {" ", "\n"}
MaxLen == 2
Chars == WhiteSpace \cup {"a"}
MicTexts == UNION {[1..n -> Chars] : n \in 0..MaxLen}

RECURSIVE trimStart(_)
trimStart(t) ==
    IF t # <<>> /\ Head(t) \in WhiteSpace THEN trimStart(Tail(t)) ELSE t

RECURSIVE trimEnd(_)
trimEnd(t) ==
    IF t # <<>> /\ t[Len(t)] \in WhiteSpace
    THEN trimEnd(SubSeq(t, 1, Len(t) - 1)) ELSE t

trim(t) == trimEnd(trimStart(t))

\* startRecording up to the await of getUserMedia (lines 57-76).
micStartRecording(m, supported) ==
    LET m1 == [m EXCEPT !.isLoading = TRUE, !.errorMessage = "",
                        !.isTimerComplete = FALSE]
        m2 == [micStopTracks(m1, m1.streamRef) EXCEPT !.streamRef = 0]
        a == m.natt + 1
    IN micCommit(m,
         IF supported
         THEN [m2 EXCEPT !.natt = a, !.atts[a].mic = "pending"]
         ELSE [m2 EXCEPT !.isLoading = FALSE, !.errorMessage = MsgUnsupported])

\* startCanvasAnimation (lines 164-217): nothing without a canvas, which is
\* rendered only while isRecording; else draw() runs once and asks a frame.
startCanvasAnimation(m, a) ==
    IF m.lifecycle = "mounted" /\ m.isRecording
    THEN [m EXCEPT !.atts[a].frame = TRUE, !.animationFrameRef = a]
    ELSE m

\* setupAudioVisualization (lines 132-159).
setupAudioVisualization(m, a) ==
    startCanvasAnimation(
        [micCloseContext(m) EXCEPT !.audioContextRef = a, !.atts[a].ctx = "running"], a)

\* startRecording after getUserMedia settled (lines 77-126).
micStartRecordingResume(m, a, outcome) ==
    micCommit(m,
      CASE outcome = "ok" ->
             LET m1 == [m EXCEPT !.streamRef = a, !.atts[a].mic = "live",
                                 !.micPermission = "granted"]
                 m2 == setupAudioVisualization(m1, a)
             IN [m2 EXCEPT !.recorderRef = a, !.atts[a].recorder = "recording",
                           !.isRecording = TRUE, !.isLoading = FALSE,
                           !.remainingTime = 5,
                           !.timerRef = a, !.atts[a].timer = TRUE]
        [] outcome = "denied" ->
             [m EXCEPT !.atts[a].mic = "failed", !.isLoading = FALSE,
                       !.errorMessage = MsgPermission, !.micPermission = "denied"]
        [] OTHER ->
             [m EXCEPT !.atts[a].mic = "failed", !.isLoading = FALSE,
                       !.errorMessage = MsgMicFailed])

\* One tick of the interval of lines 106-115.
tick(m) ==
    micCommit(m,
      IF m.remainingTime <= 1
      THEN [m EXCEPT !.isTimerComplete = TRUE, !.remainingTime = 0]
      ELSE [m EXCEPT !.remainingTime = @ - 1])

\* stopRecording (lines 222-244); isRecording is the value of the render whose
\* button was clicked.
micStopRecording(m) ==
    LET m1 == IF m.timerRef # 0
              THEN [m EXCEPT !.atts[m.timerRef].timer = FALSE, !.timerRef = 0]
              ELSE m
        r == m1.recorderRef
        m2 == IF r # 0 /\ m.isRecording
              THEN [m1 EXCEPT !.atts[r].recorder = "stopping",
                              !.isRecording = FALSE, !.recorderRef = 0]
              ELSE m1
        f == m2.animationFrameRef
    IN micCommit(m,
         IF f # 0 THEN [m2 EXCEPT !.atts[f].frame = FALSE, !.animationFrameRef = 0]
         ELSE m2)

\* handleRecordingComplete up to the await of fetch (lines 249-267), as the
\* onstop handler of attempt a's recorder.
handleRecordingComplete(m, a) ==
    micCommit(m, [m EXCEPT !.isRecordingComplete = TRUE, !.isConverting = TRUE,
                           !.atts[a].whisper = "pending"])

\* handleRecordingComplete after the fetch settled (lines 269-289).  outcome:
\* "ok" a 2xx response whose body parsed, body = [hasText, text];
\* "non2xx"; "network" the fetch rejected; "badJson" response.json() rejected.
handleRecordingCompleteResume_noTrim(m, a, outcome, body) ==
    LET text == IF body.hasText THEN body.text ELSE <<>>
        m1 == [m EXCEPT !.atts[a].whisper = "done", !.isConverting = FALSE]
    IN micCommit(m,
         CASE outcome = "ok" ->
                [m1 EXCEPT !.conversionResult = text,
                           !.isSuccess = IF body.hasText /\ text # <<>>
                                         THEN "true" ELSE "false"]
           [] outcome = "non2xx" ->
                [m1 EXCEPT !.errorMessage = MsgConvertFailed, !.isSuccess = "false"]
           [] outcome = "network" ->
                [m1 EXCEPT !.errorMessage = MsgFetchFailed, !.isSuccess = "false"]
           [] OTHER ->
                [m1 EXCEPT !.errorMessage = MsgBadJson, !.isSuccess = "false"])

handleRecordingCompleteResume(m, a, outcome, body) ==
    LET text == IF body.hasText THEN body.text ELSE <<>>
        m1 == [m EXCEPT !.atts[a].whisper = "done", !.isConverting = FALSE]
    IN micCommit(m,
         CASE outcome = "ok" ->
                [m1 EXCEPT !.conversionResult = text,
                           !.isSuccess = IF body.hasText /\ text # <<>>
                                            /\ trim(text) # <<>>
                                         THEN "true" ELSE "false"]
           [] outcome = "non2xx" ->
                [m1 EXCEPT !.errorMessage = MsgConvertFailed, !.isSuccess = "false"]
           [] outcome = "network" ->
                [m1 EXCEPT !.errorMessage = MsgFetchFailed, !.isSuccess = "false"]
           [] OTHER ->
                [m1 EXCEPT !.errorMessage = MsgBadJson, !.isSuccess = "false"])

\* handleRetry (lines 295-310): the tracks are stopped here and again, with the
\* ref cleared, in startRecording.
handleRetry(m, supported) ==
    LET m1 == [m EXCEPT !.isRecordingComplete = FALSE, !.conversionResult = <<>>,
                        !.isSuccess = "null", !.errorMessage = "",
                        !.isTimerComplete = FALSE]
    IN micStartRecording(micCommit(m, micStopTracks(m1, m1.streamRef)), supported)

\* handleNext (lines 315-334).
handleNext(m) ==
    LET m1 == [micStopTracks(m, m.streamRef) EXCEPT !.streamRef = 0]
        m2 == IF m1.audioContextRef # 0
                 /\ m1.atts[m1.audioContextRef].ctx # "closed"
              THEN [micCloseContext(m1) EXCEPT !.audioContextRef = 0]
              ELSE m1
    IN [m2 EXCEPT !.completeCalls = @ + 1]

\* The cleanup of the mount effect (lines 338-366).
micUnmount(m) ==
    LET m1 == IF m.timerRef # 0
              THEN [m EXCEPT !.atts[m.timerRef].timer = FALSE, !.timerRef = 0]
              ELSE m
        f == m1.animationFrameRef
        m2 == IF f # 0
              THEN [m1 EXCEPT !.atts[f].frame = FALSE, !.animationFrameRef = 0]
              ELSE m1
        m3 == IF m2.audioContextRef # 0
                 /\ m2.atts[m2.audioContextRef].ctx # "closed"
              THEN [micCloseContext(m2) EXCEPT !.audioContextRef = 0]
              ELSE m2
        m4 == [micStopTracks(m3, m3.streamRef) EXCEPT !.streamRef = 0]
    IN [m4 EXCEPT !.lifecycle = "unmounted"]

\* ---------------------------------------------------------------- NumericPad
\* The phone keypad (src/app/components/NumericPad.tsx).  Strings are sequences
\* of one-character strings; completions lists the arguments of onComplete.
Keys == {"0", "1", "#"}

PadStart == [phoneNumber |-> <<>>, isSubmitting |-> FALSE, completions |-> <<>>]

handleNumberClick(phoneNumber, num) ==
    IF Len(phoneNumber) >= 13 THEN phoneNumber
    ELSE IF phoneNumber = <<>> /\ num # "0" THEN <<"0", "1", "0", "-", num>>
    ELSE IF phoneNumber = <<>> THEN <<"0">>
    ELSE IF phoneNumber = <<"0">> THEN <<"0", "1">>
    ELSE IF phoneNumber = <<"0", "1">> THEN <<"0", "1", "0", "-">>
    ELSE IF phoneNumber = <<"0", "1", "0", "-">> /\ num # "0"
    THEN Append(phoneNumber, num)
    ELSE IF Len(phoneNumber) = 8 THEN phoneNumber \o <<"-", num>>
    ELSE Append(phoneNumber, num)

\* slice(0, -1)
dropLast(str) == SubSeq(str, 1, Len(str) - 1)

\* Both setPhoneNumber calls of lines 58 and 61 are given slice(0, -1) of the
\* same rendered phoneNumber; the last one stands.
handleDelete(phoneNumber) ==
    IF Len(phoneNumber) = 0 THEN phoneNumber ELSE dropLast(phoneNumber)

\* /^010-\d{4}-\d{4}$/
isValidPhoneNumber(phone) ==
    /\ Len(phone) = 13
    /\ SubSeq(phone, 1, 4) = <<"0", "1", "0", "-">>
    /\ \A i \in 5..8 : phone[i] \in Digit
    /\ phone[9] = "-"
    /\ \A i \in 10..13 : phone[i] \in Digit

\* ---------------------------------------------------------------- page
\* The wizard (src/app/page.tsx).  intake is the webhook request of
\* handlePhoneNumberComplete, timer the 3-second setTimeout of lines 57 and 64.
PageStart ==
    [currentStep |-> 0, showSuccessModal |-> FALSE, isLoading |-> FALSE,
     intake |-> [pc |-> "none", number |-> <<>>], timer |-> "none"]

\* handlePhoneNumberComplete up to the await of fetch (lines 25-38).
handlePhoneNumberComplete(p, number) ==
    [p EXCEPT !.isLoading = TRUE, !.intake = [pc |-> "pending", number |-> number]]

\* handlePhoneNumberComplete after the request settled (lines 41-78).  outcome:
\* "success" a 2xx response whose body says success; "ok" any other 2xx response;
\* "non2xx"; "network" the fetch rejected.
handlePhoneNumberCompleteResume_staysOnFailure(s, outcome) ==
    LET p == [s.page EXCEPT !.intake.pc = "done"]
    IN IF outcome \in {"success", "ok"}
       THEN [s EXCEPT !.cache = [kind |-> "json", contact |-> p.intake.number],
                      !.page = [p EXCEPT !.showSuccessModal = TRUE,
                                         !.timer = "armed"]]
       ELSE [s EXCEPT !.page = [p EXCEPT !.isLoading = FALSE]]

handlePhoneNumberCompleteResume(s, outcome) ==
    LET p == [s.page EXCEPT !.intake.pc = "done"]
    IN IF outcome \in {"success", "ok"}
       THEN [s EXCEPT !.cache = [kind |-> "json", contact |-> p.intake.number],
                      !.page = [p EXCEPT !.showSuccessModal = TRUE,
                                         !.timer = "armed"]]
       ELSE [s EXCEPT !.page = [p EXCEPT !.isLoading = FALSE, !.currentStep = 1]]

\* The callback of the 3-second timer (lines 57-60, 64-67).
modalTimer(p) ==
    [p EXCEPT !.timer = "none", !.showSuccessModal = FALSE, !.currentStep = 1]

handleMicTestComplete(p) == [p EXCEPT !.currentStep = 2]
handlePreCheckComplete(p) == [p EXCEPT !.currentStep = 3]

\* handleConfirm without the isSubmitting test.
handleConfirm_noSubmitGuard(s) ==
    LET n == s.numericPad
    IN IF isValidPhoneNumber(n.phoneNumber)
       THEN [s EXCEPT !.numericPad.isSubmitting = TRUE,
                      !.numericPad.completions = Append(@, n.phoneNumber),
                      !.page = handlePhoneNumberComplete(@, n.phoneNumber)]
       ELSE s

\* handleConfirm (NumericPad.tsx lines 77-83); onComplete is the page's
\* handlePhoneNumberComplete (page.tsx line 110).
handleConfirm(s) ==
    LET n == s.numericPad
    IN IF isValidPhoneNumber(n.phoneNumber) /\ ~n.isSubmitting
       THEN [s EXCEPT !.numericPad.isSubmitting = TRUE,
                      !.numericPad.completions = Append(@, n.phoneNumber),
                      !.page = handlePhoneNumberComplete(@, n.phoneNumber)]
       ELSE s

Phone11 == <<"0", "1", "0", "-", "1", "2", "3", "4", "-", "5", "6", "7", "8">>
CacheValues == {[kind |-> "missing", contact |-> <<>>],
                [kind |-> "json", contact |-> Phone11]}

\* Everything but the cache at the construction of the Interview component.
InitNoCache ==
    /\ qaLogs = <<>>
    /\ recordingState = 0
    /\ aiState = 0
    /\ isProcessing = FALSE
    /\ errorMessage = ""
    /\ threadId = 0
    /\ isInitialized = FALSE
    /\ mediaRecorderRef = 0
    /\ audioChunksRef = 0
    /\ audioContextRef = 0
    /\ animationFrameRef = 0
    /\ streamRef = 0
    /\ audioRef = [created |-> FALSE, src |-> -1, playing |-> FALSE]
    /\ isInitializingRef = FALSE
    /\ caps = [k \in CapIds |-> NoCap]
    /\ ncap = 0
    /\ jobs = [j \in JobIds |-> NoJob]
    /\ threadReq = [pc |-> "none", snapAi |-> 0]
    /\ threadCalls = 0
    /\ deliveries = <<>>
    /\ webhookPending = 0
    /\ onCompleteCalls = 0
    /\ lifecycle = "constructed"
    /\ cleanupRegistered = FALSE
    /\ answerWrites = <<>>
    /\ route = RouteIdle
    /\ micTest = MicIdle
    /\ numericPad = PadStart
    /\ page = PageStart

Init ==
    /\ InitNoCache
    /\ cache \in CacheValues

\* The first run of the mount effect.
Mount ==
    /\ lifecycle = "constructed"
    /\ Set(effectRun([Cur EXCEPT !.lifecycle = "mounted"]))

\* A click on the record button.
ClickRecord ==
    /\ lifecycle = "mounted"
    /\ (recordingState = 0 /\ aiState # 1 /\ ~isProcessing) => ncap < MaxCaptures
    /\ Set(render(Cur, toggleRecording(Cur)))

\* A click on the end-interview button.
ClickEnd ==
    /\ lifecycle = "mounted"
    /\ Len(deliveries) < MaxEnds
    /\ Set(render(Cur, handleEndInterview(Cur)))

\* getUserMedia of capture k resolves and the set-up that follows throws at `at`.
SetupThrows(k, at) ==
    /\ caps[k].mic = "pending"
    /\ Set(render(Cur, initializeRecordingThrow(Cur, k, at)))

\* getUserMedia of capture k settles.
GetUserMedia(k) ==
    \/ /\ caps[k].mic = "pending"
       /\ \/ Set(render(Cur, initializeRecordingResume(Cur, k)))
          \/ Set(render(Cur, initializeRecordingCatch(Cur, k)))
    \/ \E at \in {"recorder", "context", "start"} : SetupThrows(k, at)

\* The stop event of capture k's recorder: dataavailable, then onstop.
RecorderStop(k) ==
    /\ caps[k].recorder = "stopping"
    /\ \E d \in Durations :
          Set(render(Cur, processAudioToText(
                 [Cur EXCEPT !.caps[k].recorder = "inactive",
                             !.audioChunksRef = @ + 1], k, d)))

\* The /api/whisper request of capture k settles with the given outcome and text.
WhisperSettles(k, outcome, text) ==
    /\ caps[k].whisper = "inflight"
    /\ Set(render(Cur, processAudioToTextResume(Cur, k, outcome, text)))

\* The /api/whisper request of capture k settles.
WhisperResponse(k) ==
    \E outcome \in {"ok", "error", "throw"} :
       \E text \in (IF outcome = "ok" THEN Texts ELSE {""}) :
          WhisperSettles(k, outcome, text)

\* The 1-second timer of capture k fires.
Timer(k) ==
    /\ caps[k].timer = "armed"
    /\ Set(render(Cur, nextQuestionTimer(Cur, k)))

\* The createThread request settles.
CreateThreadResponse ==
    /\ threadReq.pc = "pending"
    /\ \E outcome \in {"ok", "error", "throw"} :
          Set(render(Cur, initInterviewResume(Cur, outcome)))

\* The state after the sendMessage request of job j settled with the given
\* outcome and question (when it failed, initInterview's await returns at once).
afterSendMessage(s, j, outcome, q) ==
    LET s1 == startNextQuestionResume(s, j, outcome, q)
    IN render(s, IF outcome = "ok" THEN s1 ELSE initDone(s1, j))

\* The sendMessage request of job j settles with the given outcome and question.
SendMessageSettles(j, outcome, q) ==
    /\ jobs[j].pc = "send"
    /\ Set(afterSendMessage(Cur, j, outcome, q))

\* The sendMessage request of job j settles.
SendMessageResponse(j) ==
    \E outcome \in {"ok", "error", "throw"} :
       \E q \in (IF outcome = "ok" THEN Questions ELSE {""}) :
          SendMessageSettles(j, outcome, q)

\* The /api/tts request of job j settles with the given outcome, and play() with it.
TtsSettles(j, outcome) ==
    /\ jobs[j].pc = "tts"
    /\ Set(render(Cur, initDone(playTTSResume(Cur, j, outcome), j)))

\* The /api/tts request of job j settles.
TtsResponse(j) ==
    \E outcome \in {"play", "reject", "fail"} : TtsSettles(j, outcome)

\* The playback element reaches the end of its audio.
AudioEnded ==
    /\ audioRef.playing
    /\ Set(render(Cur, onended(Cur)))

\* The animation frame asked by capture k's drawWaveform runs.
AnimationFrame(k) ==
    /\ caps[k].frame
    /\ Set(render(Cur, drawWaveform([Cur EXCEPT !.caps[k].frame = FALSE], k)))

\* A webhook request settles.
WebhookResponse ==
    /\ webhookPending > 0
    /\ \E outcome \in {"ok", "error", "throw"} :
          Set(render(Cur, handleEndInterviewResume(Cur, outcome)))

Next ==
    \/ Mount
    \/ ClickRecord
    \/ ClickEnd
    \/ \E k \in CapIds : GetUserMedia(k)
    \/ \E k \in CapIds : RecorderStop(k)
    \/ \E k \in CapIds : WhisperResponse(k)
    \/ \E k \in CapIds : Timer(k)
    \/ CreateThreadResponse
    \/ \E j \in JobIds : SendMessageResponse(j)
    \/ \E j \in JobIds : TtsResponse(j)
    \/ AudioEnded
    \/ \E k \in CapIds : AnimationFrame(k)
    \/ WebhookResponse

Spec == Init /\ [][Next]_vars

\* The session of a user who never presses the record button, with the fairness
\* the browser gives: a request that was sent is eventually answered (fetch
\* resolves or rejects).  The user is not obliged to click.
NextNoCapture ==
    \/ Mount
    \/ ClickEnd
    \/ CreateThreadResponse
    \/ \E j \in JobIds : SendMessageResponse(j)
    \/ \E j \in JobIds : TtsResponse(j)
    \/ AudioEnded
    \/ WebhookResponse

FairSpec ==
    /\ Init
    /\ [][NextNoCapture]_vars
    /\ WF_vars(WebhookResponse)

\* Cached numbers of every shape: the digits of DigitPool cut at n, bare, grouped
\* 3-4-4 or 3-3-4 with hyphens, or preceded by a letter; a cache entry that is
\* missing, that does not parse, and one that parses without a contact.
DigitPool == <<"0", "1", "0", "1", "2", "3", "4", "5", "6", "7", "8", "9">>
MaxDigits == 12
digitsTo(n) == [i \in 1..n |-> DigitPool[((i - 1) % Len(DigitPool)) + 1]]
grouped(n, second) ==
    SubSeq(digitsTo(n), 1, 3) \o <<"-">> \o SubSeq(digitsTo(n), 4, second) \o <<"-">>
        \o SubSeq(digitsTo(n), second + 1, n)
RawContacts ==
    {digitsTo(n) : n \in 0..MaxDigits}
      \cup {grouped(n, 7) : n \in 8..MaxDigits}
      \cup {grouped(n, 6) : n \in 8..MaxDigits}
      \cup {<<"x">> \o digitsTo(n) : n \in 0..MaxDigits}
ContactCaches ==
    {[kind |-> "missing", contact |-> <<>>], [kind |-> "garbage", contact |-> <<>>]}
      \cup {[kind |-> "json", contact |-> raw] : raw \in RawContacts}

\* The session of a user who only listens and ends, for every cached number.
ContactInit ==
    /\ InitNoCache
    /\ cache \in ContactCaches

ContactSpec == ContactInit /\ [][NextNoCapture]_vars

\* The session of a user who makes one recording (starts it and stops it), with
\* the fairness the claim on leaving AiSpeaking assumes: every remote request is
\* eventually answered and every started playback eventually ends.  The user is
\* not obliged to click, and nothing is assumed of the microphone, the recorder,
\* the transcription or the 1-second timer.
ClickRecordOnce ==
    /\ (recordingState = 0 => ncap = 0)
    /\ ClickRecord

NextOneCapture ==
    \/ Mount
    \/ ClickRecordOnce
    \/ ClickEnd
    \/ \E k \in CapIds : GetUserMedia(k)
    \/ \E k \in CapIds : RecorderStop(k)
    \/ \E k \in CapIds : WhisperResponse(k)
    \/ \E k \in CapIds : Timer(k)
    \/ CreateThreadResponse
    \/ \E j \in JobIds : SendMessageResponse(j)
    \/ \E j \in JobIds : TtsResponse(j)
    \/ AudioEnded
    \/ \E k \in CapIds : AnimationFrame(k)
    \/ WebhookResponse

LiveSpec ==
    /\ Init
    /\ [][NextOneCapture]_vars
    /\ WF_vars(CreateThreadResponse)
    /\ \A j \in JobIds : WF_vars(SendMessageResponse(j)) /\ WF_vars(TtsResponse(j))
    /\ WF_vars(AudioEnded)

\* ---------------------------------------------------------------- /api/assistant route
\* The variables of the Interview component, which the route does not touch.
interviewVars ==
    <<qaLogs, recordingState, aiState, isProcessing, errorMessage, threadId,
      isInitialized, mediaRecorderRef, audioChunksRef, audioContextRef,
      animationFrameRef, streamRef, audioRef, isInitializingRef, caps, ncap,
      jobs, threadReq, threadCalls, deliveries, webhookPending, onCompleteCalls,
      lifecycle, cleanupRegistered, cache, answerWrites>>

\* A request arrives at the route (the previous one, if any, was answered).
Request ==
    /\ route.pc \in {"idle", "responded"}
    /\ \E bodyOk \in BOOLEAN, action \in {"createThread", "sendMessage", "other"},
          thread \in {"", "thread_1"}, message \in {"", "A1"} :
          route' = POST(route, bodyOk, action, thread, message)
    /\ UNCHANGED <<interviewVars, micTest, numericPad, page>>

\* openai.beta.threads.create settles.
ThreadsCreateSettles ==
    /\ route.pc = "threadsCreate"
    /\ \E ok \in BOOLEAN : route' = handleCreateThread(route, ok)
    /\ UNCHANGED <<interviewVars, micTest, numericPad, page>>

\* openai.beta.threads.messages.create settles (lines 77-80).
MessagesCreateSettles ==
    /\ route.pc = "messagesCreate"
    /\ \/ route' = [route EXCEPT !.pc = "runsCreate"]
       \/ route' = sendMessageCatch(route)
    /\ UNCHANGED <<interviewVars, micTest, numericPad, page>>

\* openai.beta.threads.runs.create settles (lines 83-88); waitForRunCompletion
\* starts with i = 0.
RunsCreateSettles ==
    /\ route.pc = "runsCreate"
    /\ \/ route' = waitForRunCompletion([route EXCEPT !.i = 0])
       \/ route' = sendMessageCatch(route)
    /\ UNCHANGED <<interviewVars, micTest, numericPad, page>>

\* openai.beta.threads.runs.retrieve settles with the given status.
RetrieveSettles(status) ==
    /\ route.pc = "retrieve"
    /\ route' = waitForRunCompletionResume(route, status)
    /\ UNCHANGED <<interviewVars, micTest, numericPad, page>>

\* The 1-second wait of line 138 is over: i++ and the loop test.
SleepEnds ==
    /\ route.pc = "sleep"
    /\ route' = waitForRunCompletion([route EXCEPT !.i = @ + 1])
    /\ UNCHANGED <<interviewVars, micTest, numericPad, page>>

\* openai.beta.threads.messages.list settles.
MessagesListSettles ==
    /\ route.pc = "messagesList"
    /\ \E latest \in {"text", "image", "emptyContent", "noAssistant", "throw"} :
          route' = handleSendMessageResume(route, latest)
    /\ UNCHANGED <<interviewVars, micTest, numericPad, page>>

RouteNext ==
    \/ Request
    \/ ThreadsCreateSettles
    \/ MessagesCreateSettles
    \/ RunsCreateSettles
    \/ \E status \in RunStatuses \cup {"throw"} : RetrieveSettles(status)
    \/ SleepEnds
    \/ MessagesListSettles

\* The route alone, with every remote call settling and every timer firing.
RouteSpec ==
    /\ Init
    /\ [][RouteNext]_vars
    /\ WF_vars(ThreadsCreateSettles)
    /\ WF_vars(MessagesCreateSettles)
    /\ WF_vars(RunsCreateSettles)
    /\ WF_vars(\E status \in RunStatuses \cup {"throw"} : RetrieveSettles(status))
    /\ WF_vars(SleepEnds)
    /\ WF_vars(MessagesListSettles)

\* ---------------------------------------------------------------- MicTest actions
\* MicTest touches neither the Interview component nor the route.
otherVars == <<interviewVars, route, numericPad, page>>

Bodies == {[hasText |-> FALSE, text |-> <<>>]}
              \cup {[hasText |-> TRUE, text |-> x] : x \in MicTexts}

\* The record button while it reads "start" (lines 534-542).
MicClickStart ==
    /\ micTest.lifecycle = "mounted" /\ micTest.micPermission # "denied"
    /\ ~micTest.isRecordingComplete /\ ~micTest.isRecording /\ ~micTest.isLoading
    /\ micTest.natt < MaxAttempts
    /\ \E supported \in BOOLEAN : micTest' = micStartRecording(micTest, supported)
    /\ UNCHANGED otherVars

\* The record button while it reads "stop".
MicClickStop ==
    /\ micTest.lifecycle = "mounted" /\ micTest.micPermission # "denied"
    /\ ~micTest.isRecordingComplete /\ micTest.isRecording /\ ~micTest.isLoading
    /\ micTest' = micStopRecording(micTest)
    /\ UNCHANGED otherVars

\* getUserMedia of attempt a settles.
MicGetUserMedia(a) ==
    /\ micTest.atts[a].mic = "pending"
    /\ \E outcome \in {"ok", "denied", "error"} :
          micTest' = micStartRecordingResume(micTest, a, outcome)
    /\ UNCHANGED otherVars

\* The interval of attempt a fires.
MicTick(a) ==
    /\ micTest.atts[a].timer
    /\ micTest' = tick(micTest)
    /\ UNCHANGED otherVars

\* A frame asked by attempt a's draw runs: draw asks the next one (line 181).
MicAnimationFrame(a) ==
    /\ micTest.atts[a].frame
    /\ micTest' = [micTest EXCEPT !.animationFrameRef = a]
    /\ UNCHANGED otherVars

\* The stop event of attempt a's recorder: onstop = handleRecordingComplete.
MicRecorderStop(a) ==
    /\ micTest.atts[a].recorder = "stopping"
    /\ micTest' = handleRecordingComplete(
                      [micTest EXCEPT !.atts[a].recorder = "inactive"], a)
    /\ UNCHANGED otherVars

\* The /api/whisper request of attempt a settles with the given outcome and body.
MicWhisperSettles(a, outcome, body) ==
    /\ micTest.atts[a].whisper = "pending"
    /\ micTest' = handleRecordingCompleteResume(micTest, a, outcome, body)
    /\ UNCHANGED otherVars

NoBody == [hasText |-> FALSE, text |-> <<>>]

MicWhisperResponse(a) ==
    \/ \E body \in Bodies : MicWhisperSettles(a, "ok", body)
    \/ \E outcome \in {"non2xx", "network", "badJson"} :
          MicWhisperSettles(a, outcome, NoBody)

\* The retry button (lines 376-381 and 600-605).
MicClickRetry ==
    /\ micTest.lifecycle = "mounted"
    /\ micTest.micPermission = "denied" \/ micTest.isRecordingComplete
    /\ micTest.natt < MaxAttempts
    /\ \E supported \in BOOLEAN : micTest' = handleRetry(micTest, supported)
    /\ UNCHANGED otherVars

\* The next button, enabled by isSuccess (lines 608-618); onComplete moves the
\* wizard to the next step, which unmounts MicTest (page.tsx lines 85-86, 114).
MicClickNext ==
    /\ micTest.lifecycle = "mounted" /\ micTest.micPermission # "denied"
    /\ micTest.isRecordingComplete /\ micTest.isSuccess = "true"
    /\ micTest' = micUnmount(handleNext(micTest))
    /\ UNCHANGED otherVars

\* MicTest is unmounted.
MicUnmount ==
    /\ micTest.lifecycle = "mounted"
    /\ micTest' = micUnmount(micTest)
    /\ UNCHANGED otherVars

MicNext ==
    \/ MicClickStart
    \/ MicClickStop
    \/ \E a \in AttIds : MicGetUserMedia(a)
    \/ \E a \in AttIds : MicTick(a)
    \/ \E a \in AttIds : MicAnimationFrame(a)
    \/ \E a \in AttIds : MicRecorderStop(a)
    \/ \E a \in AttIds : MicWhisperResponse(a)
    \/ MicClickRetry
    \/ MicClickNext
    \/ MicUnmount

MicSpec == Init /\ [][MicNext]_vars

\* ---------------------------------------------------------------- NumericPad and page actions
\* What neither the keypad nor the wizard's own handlers touch.
componentVars == <<qaLogs, recordingState, aiState, isProcessing, errorMessage,
                   threadId, isInitialized, mediaRecorderRef, audioChunksRef,
                   audioContextRef, animationFrameRef, streamRef, audioRef,
                   isInitializingRef, caps, ncap, jobs, threadReq, threadCalls,
                   deliveries, webhookPending, onCompleteCalls, lifecycle,
                   cleanupRegistered, answerWrites, route, micTest>>

\* The keypad is rendered while currentStep = 0 (page.tsx lines 109-111).
padMounted == page.currentStep = 0

\* A key of the keypad, disabled while isSubmitting (lines 124-158).
PressKey(num) ==
    /\ padMounted /\ ~numericPad.isSubmitting
    /\ numericPad' = [numericPad EXCEPT !.phoneNumber = handleNumberClick(@, num)]
    /\ UNCHANGED <<componentVars, cache, page>>

\* The delete key, disabled while isSubmitting (lines 163-166).
PressDelete ==
    /\ padMounted /\ ~numericPad.isSubmitting
    /\ numericPad' = [numericPad EXCEPT !.phoneNumber = handleDelete(@)]
    /\ UNCHANGED <<componentVars, cache, page>>

\* The confirm button, disabled while the number is not valid (lines 199-200).
PressConfirm ==
    /\ padMounted /\ isValidPhoneNumber(numericPad.phoneNumber)
    /\ Set(handleConfirm(Cur))

\* The intake webhook request settles.
IntakeSettles(outcome) ==
    /\ page.intake.pc = "pending"
    /\ Set(handlePhoneNumberCompleteResume(Cur, outcome))

IntakeResponse ==
    \E outcome \in {"success", "ok", "non2xx", "network"} : IntakeSettles(outcome)

\* The 3-second timer fires.
ModalTimer ==
    /\ page.timer = "armed"
    /\ page' = modalTimer(page)
    /\ UNCHANGED <<componentVars, cache, numericPad>>

\* MicTest, rendered while currentStep = 1, calls onComplete (line 115).
MicTestCompletes ==
    /\ page.currentStep = 1
    /\ page' = handleMicTestComplete(page)
    /\ UNCHANGED <<componentVars, cache, numericPad>>

\* PreCheck, rendered while currentStep = 2, calls onComplete (line 120).
PreCheckCompletes ==
    /\ page.currentStep = 2
    /\ page' = handlePreCheckComplete(page)
    /\ UNCHANGED <<componentVars, cache, numericPad>>

\* Interview is rendered when currentStep = 3 (lines 124-126); its requests
\* settle after it was unmounted too.
InterviewStep ==
    /\ page.currentStep >= 3
    /\ NextNoCapture

\* Interview calls onComplete once for every end click whose request has
\* settled (PreCheck.tsx line 659); the end button is never disabled, so after
\* the call that changed the step the call can come again.
InterviewCompletes ==
    /\ page.currentStep = 4
    /\ page' = handleInterviewComplete(page)
    /\ UNCHANGED <<componentVars, cache, numericPad>>

PadNext ==
    \/ \E num \in Keys : PressKey(num)
    \/ PressDelete
    \/ PressConfirm

\* The keypad alone.
PadSpec == Init /\ [][PadNext]_vars

\* The wizard from the keypad to the end of the interview, for a user who types
\* with the key 1 and who only listens and ends in the interview.
WizardNext ==
    \/ PressKey("1")
    \/ PressDelete
    \/ PressConfirm
    \/ IntakeResponse
    \/ ModalTimer
    \/ MicTestCompletes
    \/ PreCheckCompletes
    \/ InterviewStep
    \/ InterviewCompletes

WizardSpec == Init /\ [][WizardNext]_vars

\* The wizard with the fairness the browser gives: the intake request is
\* eventually answered and the 3-second timer eventually fires.  The user is not
\* obliged to click.
WizardLiveSpec ==
    /\ Init
    /\ [][WizardNext]_vars
    /\ WF_vars(IntakeResponse)
    /\ WF_vars(ModalTimer)

\* ---------------------------------------------------------------- properties
OpenStreams == {k \in CapIds : caps[k].mic = "live"}
OpenContexts == {k \in CapIds : caps[k].ctx = "running"}
ActiveRecorders == {k \in CapIds : caps[k].recorder = "recording"}
PendingMics == {k \in CapIds : caps[k].mic = "pending"}
Transcribing == {k \in CapIds : caps[k].whisper = "inflight"}
ArmedTimers == {k \in CapIds : caps[k].timer = "armed"}
Sending == {j \in JobIds : jobs[j].pc = "send"}
Synthesizing == {j \in JobIds : jobs[j].pc = "tts"}
Ended == Len(deliveries) > 0

\* Nothing asynchronous is left to run.
Quiescent ==
    /\ PendingMics = {} /\ Transcribing = {} /\ ArmedTimers = {}
    /\ Sending = {} /\ Synthesizing = {}
    /\ \A k \in CapIds : caps[k].recorder # "stopping" /\ ~caps[k].frame
    /\ threadReq.pc # "pending"
    /\ webhookPending = 0
    /\ ~audioRef.playing

\* C1: recordingState is never 1 (Recording) while aiState is 1 (AiSpeaking).
C1_RecordingExcludesAiSpeaking == ~(recordingState = 1 /\ aiState = 1)

\* C2: at most one microphone stream is obtained and not stopped at any time.
C2_AtMostOneOpenStream == Cardinality(OpenStreams) <= 1

\* C3: once the session has been ended (or the component unmounted, which only
\* follows an end) and every pending completion has run, no stream track and no
\* audio context opened by the interview is still open.
C3_ReleasedAfterEnd ==
    (Ended /\ Quiescent) => (OpenStreams = {} /\ OpenContexts = {})

\* C4: a record click that stops a recording stops the capture's stream tracks
\* and closes its audio context.
C4_StopClosesStreamAndContext ==
    [][(recordingState = 1 /\ mediaRecorderRef # 0 /\ ClickRecord
        /\ caps[mediaRecorderRef].recorder = "recording"
        /\ caps'[mediaRecorderRef].recorder = "stopping")
       => (caps'[mediaRecorderRef].mic = "ended"
           /\ caps'[mediaRecorderRef].ctx = "closed")]_vars

\* C5: in a session that has not been ended, at most one sendMessage request is
\* outstanding at any time, and none is outstanding while the synthesis or the
\* playback of an earlier question is in flight.
C5_OneQuestionRequest ==
    ~Ended => /\ Cardinality(Sending) <= 1
              /\ Sending # {} => (Synthesizing = {} /\ ~audioRef.playing)

\* C6: after handleEndInterview has run, a completion (getUserMedia, recorder
\* stop event, transcription, timer, createThread, sendMessage, synthesis,
\* playback end) changes none of aiState, recordingState, isProcessing, qaLogs,
\* sends no request, starts no playback and opens no capture.
C6_CompletionsAreNoOpsAfterEnd ==
    [][(Ended /\ ~ClickRecord /\ ~ClickEnd /\ ~WebhookResponse)
       => /\ UNCHANGED <<aiState, recordingState, isProcessing, qaLogs>>
          /\ Transcribing' \subseteq Transcribing
          /\ Sending' \subseteq Sending
          /\ Synthesizing' \subseteq Synthesizing
          /\ OpenStreams' \subseteq OpenStreams
          /\ ActiveRecorders' \subseteq ActiveRecorders
          /\ (audioRef'.playing => audioRef.playing)]_vars

\* C7: while aiState = 1 a click on the record button changes nothing, and
\* initializeRecording is only ever called (a capture is only ever started) from
\* a state where aiState is not 1.
C7_ClickIgnoredWhileAiSpeaking ==
    [][/\ (aiState = 1 /\ ClickRecord) => UNCHANGED vars
       /\ (ncap' # ncap) => (aiState # 1 /\ PendingMics' = PendingMics \cup {ncap'})]_vars

\* A state where the record button is clicked while the AI is speaking, after an
\* earlier capture was started.
C7_Witness ==
    /\ lifecycle = "mounted" /\ aiState = 1 /\ ~isProcessing
    /\ ncap > 0 /\ ncap < MaxCaptures
    /\ ENABLED ClickRecord

\* C8: handleEndInterview, from any state, leaves no recorder recording and no
\* stream live, the playback paused, aiState = 0, recordingState = 0 and
\* isProcessing = FALSE, and sends the delivery request.
C8_EndStopsEverything ==
    [][ClickEnd
       => /\ ActiveRecorders' = {} /\ OpenStreams' = {}
          /\ ~audioRef'.playing
          /\ aiState' = 0 /\ recordingState' = 0 /\ isProcessing' = FALSE
          /\ Len(deliveries') = Len(deliveries) + 1]_vars

\* C9: every delivery attempt is eventually followed by a call of onComplete,
\* whatever the outcome of the webhook request.
C9_OnCompleteAlwaysCalled ==
    \A n \in 1..MaxEnds :
        (Len(deliveries) >= n) ~> (onCompleteCalls >= n)

\* The webhook request settled and onComplete was called.
C9_Witness == Ended /\ webhookPending = 0 /\ onCompleteCalls = Len(deliveries)

NoAnswers(logs) == \A i \in 1..Len(logs) : logs[i].aText = ""

\* C10 as stated: ending the session when no Turn has an answer (a question may
\* have been asked) sends exactly one delivery request whose transcript is the
\* "no records" indicator.
C10_NoAnswersGivesIndicator ==
    [][(ClickEnd /\ NoAnswers(qaLogs))
       => /\ Len(deliveries') = Len(deliveries) + 1
          /\ deliveries'[Len(deliveries')].interviewlog = NoRecords]_vars

\* C10 amended: ending the session sends exactly one delivery request; its
\* transcript is the "no records" indicator exactly when no question was received
\* (qaLogs is empty), and a question asked but not answered is delivered as a
\* segment with an empty answer.
C10_EmptyLogGivesIndicator ==
    [][ClickEnd
       => /\ Len(deliveries') = Len(deliveries) + 1
          /\ (deliveries'[Len(deliveries')].interviewlog = NoRecords) <=> (qaLogs = <<>>)
          /\ \A q \in Questions :
                qaLogs = <<[q |-> q, aText |-> "", durationSec |-> 0]>>
                => deliveries'[Len(deliveries')].interviewlog
                       = "Question : " \o q \o ", Answer : "]_vars

\* The session was ended with one question asked and not answered.
C10_Witness ==
    /\ Len(deliveries) = 1
    /\ deliveries[1].interviewlog = "Question : Q1, Answer : "

\* ---------------------------------------------------------------- C11
\* One question/answer segment of the transcript (lines 595-597).
segment(turn) == "Question : " \o turn.q \o ", Answer : " \o turn.aText

\* The segments of the first n Turns in insertion order, the separator of line 600
\* between consecutive segments only.
RECURSIVE joinSegments(_, _)
joinSegments(logs, n) ==
    IF n = 0 THEN ""
    ELSE IF n = 1 THEN segment(logs[1])
    ELSE joinSegments(logs, n - 1) \o ", " \o segment(logs[n])

\* C11: for every non-empty Turn sequence, the transcript that ending the session
\* delivers is the segments of the Turns, one per Turn in insertion order, with
\* ", " between each pair of consecutive segments and nothing after the last.
C11_OneSegmentPerTurn ==
    [][(ClickEnd /\ Len(qaLogs) > 0)
       => deliveries'[Len(deliveries')].interviewlog
              = joinSegments(qaLogs, Len(qaLogs))]_vars

\* A session ended with two Turns: two segments, one separator, none trailing.
C11_Witness ==
    /\ Len(deliveries) = 1
    /\ \E q1, q2 \in Questions :
          deliveries[1].interviewlog
              = "Question : " \o q1 \o ", Answer : A1, Question : " \o q2 \o ", Answer : "

\* ---------------------------------------------------------------- C12
\* The Turns whose answer has not been set.
OpenTurns == {i \in 1..Len(qaLogs) : qaLogs[i].aText = ""}

\* C12: before the session is ended, at most one Turn has its answer not yet set,
\* and a Turn is appended only when every earlier Turn already has an answer.
C12_AtMostOneOpenTurn ==
    [][~Ended
       => /\ Cardinality(OpenTurns) <= 1
          /\ (Len(qaLogs') > Len(qaLogs) => OpenTurns = {})]_vars

\* ---------------------------------------------------------------- C13
\* C13: Turns are never removed or reordered, and once a transcription completion
\* has written a Turn's answer and duration no later completion writes them again.
C13_AnswerWrittenOnce ==
    [][\A i \in 1..Len(qaLogs) :
          /\ Len(qaLogs') >= i
          /\ qaLogs'[i].q = qaLogs[i].q
          /\ (answerWrites[i] >= 1
                => answerWrites'[i] = answerWrites[i] /\ qaLogs'[i] = qaLogs[i])]_vars

\* ---------------------------------------------------------------- C14
\* C14: however often the mount effect re-runs, the createThread request is issued
\* at most once, and threadId never changes once it is non-empty.
C14_OneThread ==
    [][/\ threadCalls' <= 1
       /\ (threadId # 0 => threadId' = threadId)]_vars

\* The effect has re-run after the thread was created: aiState went 0, 1, 2, 1 and
\* isInitialized became TRUE, and a second question was asked on the same thread.
C14_Witness ==
    /\ threadId = 1 /\ threadCalls = 1 /\ isInitialized
    /\ Len(qaLogs) = 2 /\ aiState = 1
    /\ lifecycle = "mounted" /\ ~Ended

\* ---------------------------------------------------------------- C15
\* C15: when the transcription request of a recording succeeds with an empty text
\* while a Turn is open and the user's answer is awaited, the empty string is recorded as that Turn's answer (a
\* write of the answer, no error message) and the next question is requested
\* (the 1-second timer that asks it is armed).
C15_EmptyTextIsRecorded ==
    [][\A k \in CapIds :
          (/\ WhisperSettles(k, "ok", "")
           /\ lifecycle = "mounted" /\ ~Ended
           /\ aiState = 2 /\ recordingState = 0 /\ caps[k].snapAi = 2
           /\ Len(qaLogs) > 0 /\ qaLogs[Len(qaLogs)].aText = "")
          => /\ answerWrites' = countWrite(answerWrites)
             /\ errorMessage' = errorMessage
             /\ caps'[k].timer = "armed"]_vars

C17_SynthesisFailureAwaitsAnswer ==
    [][\A j \in JobIds :
          /\ (TtsSettles(j, "fail") /\ lifecycle = "mounted")
                => aiState' = 2 /\ audioRef' = audioRef
          /\ (jobs[j].pc = "done" /\ audioRef.src # j) => audioRef'.src # j]_vars

\* The synthesis of the first question failed: the question is in the transcript,
\* the element holds no source, and the user's answer is awaited.
C17_Witness ==
    /\ lifecycle = "mounted" /\ ~Ended
    /\ jobs[0].pc = "done" /\ jobs[0].q # ""
    /\ audioRef.created /\ audioRef.src = -1 /\ ~audioRef.playing
    /\ aiState = 2 /\ ncap = 0

\* ---------------------------------------------------------------- C18
\* C18: if every remote request is eventually answered and every started playback
\* eventually ends, every state of the mounted component with aiState = 1 is
\* followed by one with aiState # 1 (or the component is unmounted); a rejected
\* playback start and the natural end of the playback both give aiState = 2.
C18_AiSpeakingIsLeft ==
    /\ (lifecycle = "mounted" /\ aiState = 1) ~> (aiState # 1 \/ lifecycle = "unmounted")
    /\ [][lifecycle = "mounted"
            => /\ (AudioEnded => aiState' = 2)
               /\ \A j \in JobIds : TtsSettles(j, "reject") => aiState' = 2]_vars

\* The question that follows the user's answer was played to its end and the
\* answer to it is awaited: AiSpeaking was entered twice and left twice.
C18_Witness ==
    /\ lifecycle = "mounted" /\ ~Ended
    /\ jobs[1].pc = "done" /\ jobs[1].q # ""
    /\ audioRef.src = 1 /\ ~audioRef.playing
    /\ aiState = 2 /\ Len(qaLogs) = 2

\* ---------------------------------------------------------------- C19
\* C19: before the session is ended, while the synthesis request of a question is
\* outstanding or its audio is playing, aiState is 1.
C19_SpeakingWhilePlaying ==
    (lifecycle = "mounted" /\ ~Ended /\ (Synthesizing # {} \/ audioRef.playing))
    => aiState = 1

\* ---------------------------------------------------------------- C20
\* C20: when playTTS begins for a question (its synthesis request is sent), the
\* playback element is paused and has no source, whatever it was playing; the
\* element's source is always one question's audio or nothing, and it plays
\* only when it has a source.
C20_PausedBeforeSynthesis ==
    [][/\ \A j \in JobIds :
             (jobs[j].pc # "tts" /\ jobs'[j].pc = "tts")
             => ~audioRef'.playing /\ audioRef'.src = -1
       /\ audioRef'.src \in JobIds \cup {-1}
       /\ (audioRef'.playing => audioRef'.src \in JobIds)]_vars

\* playTTS began for a question while the audio of another question was playing:
\* the element is paused and cleared, and the synthesis request is outstanding.
C20_Witness ==
    \E i, j \in JobIds :
       /\ i # j
       /\ jobs[i].pc = "done" /\ jobs[i].q # ""
       /\ jobs[j].pc = "tts"
       /\ audioRef.created /\ audioRef.src = -1 /\ ~audioRef.playing

\* ---------------------------------------------------------------- C21
\* C21: before the session is ended, while the transcription request of a
\* recording is in flight, isProcessing is TRUE and a click on the record button
\* is ignored (it changes nothing, so it starts no capture).
C21_TranscribingBlocksRecording ==
    (lifecycle = "mounted" /\ ~Ended /\ Transcribing # {})
    => isProcessing /\ toggleRecording(Cur) = Cur

\* ---------------------------------------------------------------- C22
\* C22: before the session is ended the flags encode one Phase; in particular
\* recordingState = 1 (Recording) and isProcessing (Transcribing) never hold
\* together.
C22_RecordingExcludesTranscribing ==
    (lifecycle = "mounted" /\ ~Ended) => ~(recordingState = 1 /\ isProcessing)

\* ---------------------------------------------------------------- C23
\* C23: when the microphone request of a start attempt is refused, no capture is
\* created (no stream, recorder or audio context) and recordingState is 1
\* neither while the attempt is pending nor after it has failed.
C23_FailedStartNeverRecording ==
    [][\A k \in CapIds :
          (lifecycle = "mounted" /\ ~Ended
           /\ caps[k].mic = "pending" /\ caps'[k].mic = "denied")
          => /\ caps'[k].recorder = "none" /\ caps'[k].ctx = "none"
             /\ recordingState # 1
             /\ recordingState' # 1]_vars

\* ---------------------------------------------------------------- C24
\* C24: when initializeRecording fails after the microphone stream was obtained
\* (the recorder, the audio context or the start of the recorder throws), the
\* error path leaves no track of that stream live and no audio context running.
C24_SetupFailureReleasesAudio ==
    [][\A k \in CapIds : \A at \in {"recorder", "context", "start"} :
          SetupThrows(k, at)
          => caps'[k].mic # "live" /\ caps'[k].ctx # "running"]_vars

\* ---------------------------------------------------------------- C25
\* C25: before the session is ended, a successful transcription writes its text
\* and the measured duration to the open Turn and sends no request yet (it arms
\* the 1-second timer); when the timer fires in a session that has a thread, the
\* next-question request is sent with exactly that text and the session's
\* thread id.
C25_AnswerThenRequest ==
    [][\A k \in CapIds :
          (lifecycle = "mounted" /\ ~Ended)
          => /\ (WhisperSettles(k, "ok", "A1") /\ OpenTurns # {})
                  => /\ Len(qaLogs) \in OpenTurns
                     /\ qaLogs' = [qaLogs EXCEPT ![Len(qaLogs)] =
                                       [q |-> qaLogs[Len(qaLogs)].q, aText |-> "A1",
                                        durationSec |-> caps[k].dur]]
                     /\ caps'[k].timer = "armed" /\ caps'[k].text = "A1"
                     /\ jobs' = jobs
             /\ (Timer(k) /\ threadId # 0)
                  => jobs'[k] = [pc |-> "send", thread |-> threadId,
                                 msg |-> caps[k].text, q |-> ""]]_vars

\* ---------------------------------------------------------------- C26
\* C26: when a next-question request fails (non-2xx or no message, or a network
\* error), an error message is set, no Turn is appended, no speech is requested
\* and the playback element is not touched; the component is left with
\* aiState = 0, a click on the end button is still acted on, and a click on the
\* record button (the way to a new next-question request) is accepted unless a
\* transcription is being processed.
C26_QuestionFailureIsActionable ==
    [][\A j \in JobIds : \A outcome \in {"error", "throw"} :
          (SendMessageSettles(j, outcome, "") /\ lifecycle = "mounted")
          => LET post == afterSendMessage(Cur, j, outcome, "")
             IN /\ errorMessage' \in {MsgQuestionFailed, MsgServer}
                /\ qaLogs' = qaLogs /\ answerWrites' = answerWrites
                /\ Synthesizing' = Synthesizing /\ Sending' = Sending \ {j}
                /\ audioRef' = audioRef
                /\ aiState' = 0
                /\ handleEndInterview(post).webhookPending > post.webhookPending
                /\ (~post.isProcessing => toggleRecording(post) # post)]_vars

\* The first question request failed; the user recorded an answer and the request
\* that follows it has been sent.
C26_Witness ==
    /\ lifecycle = "mounted" /\ ~Ended
    /\ jobs[0].pc = "done" /\ jobs[0].q = "" /\ jobs[0].thread # 0
    /\ jobs[1].pc = "send" /\ jobs[1].msg = "A1"
    /\ qaLogs = <<>>

\* ---------------------------------------------------------------- C27
\* C27: waitForRunCompletion retrieves the run's status at most maxAttempts times
\* and always ends: it returns at once when the status is "completed", fails at
\* once when it is "failed", "cancelled" or "expired", and fails with a timeout
\* when the loop bound is reached; every such failure is answered by the
\* sendMessage endpoint with a non-2xx status.
C27_BoundedWait ==
    /\ [](route.retrievals <= maxAttempts)
    /\ [][/\ RetrieveSettles("completed")
               => route'.pc = "messagesList" /\ route'.retrievals = route.retrievals
          /\ \A status \in {"failed", "cancelled", "expired"} :
                RetrieveSettles(status)
                => /\ route'.pc = "responded" /\ route'.retrievals = route.retrievals
                   /\ route'.response.status \notin 200..299
          /\ (SleepEnds /\ route.retrievals = maxAttempts)
               => /\ route'.pc = "responded"
                  /\ route'.response.status \notin 200..299]_vars
    /\ (route.pc \in {"retrieve", "sleep"}) ~> (route.pc \in {"messagesList", "responded"})

\* The wait timed out: maxAttempts retrievals, none of them final, and the
\* endpoint answered 500.
C27_Witness ==
    /\ route.pc = "responded" /\ route.i = maxAttempts
    /\ route.retrievals = maxAttempts
    /\ route.response = [status |-> 500, kind |-> "error"]

\* ---------------------------------------------------------------- C28
\* C28: the route answers with a 2xx status and a message only when the message
\* is the text the assistant generated; an unknown action, a missing threadId
\* or message, a failed or timed-out run and a run that leaves no assistant text
\* message are answered with a non-2xx status.
C28_SuccessOnlyWithQuestion ==
    /\ [][Request
            => \/ route'.pc \in {"threadsCreate", "messagesCreate"}
               \/ route'.response.status \notin 200..299]_vars
    /\ [](route.pc = "responded" /\ route.response.status \in 200..299
            => route.response.kind \in {"threadId", "message"})
    /\ [][\A latest \in {"image", "emptyContent", "noAssistant", "throw"} :
             (route.pc = "messagesList" /\ route' = handleSendMessageResume(route, latest))
             => route'.response.status \notin 200..299]_vars


\* C29: whenever the recorder reference is empty or its recorder is not
\* recording, and the stream reference is empty, stopRecording changes nothing
\* (no recorder stopped, no track stopped, no frame cancelled, no request
\* sent), and stopRecording applied twice equals stopRecording applied once.
C29_StopWithNothingOpenIsNoOp ==
    /\ ((mediaRecorderRef = 0 \/ caps[mediaRecorderRef].recorder # "recording")
          /\ streamRef = 0)
       => stopRecording(Cur) = Cur
    /\ stopRecording(stopRecording(Cur)) = stopRecording(Cur)

\* ---------------------------------------------------------------- C30
\* C30: in the microphone self-test, a settled transcription sets isSuccess to
\* "true" exactly when the response was 2xx, parsed, and carried a text that is
\* non-empty after trimming; empty or whitespace-only text, a missing text, a
\* non-2xx response, a rejected fetch and an unparsable body set it to "false".
\* At any time isSuccess = "true" only with a shown text non-empty after trimming.
C30_SuccessOnlyWithText ==
    /\ [](micTest.isSuccess = "true" => trim(micTest.conversionResult) # <<>>)
    /\ [][\A a \in AttIds :
            /\ \A body \in Bodies :
                  (micTest.lifecycle = "mounted" /\ MicWhisperSettles(a, "ok", body))
                    => micTest'.isSuccess =
                         IF body.hasText /\ trim(body.text) # <<>>
                         THEN "true" ELSE "false"
            /\ \A outcome \in {"non2xx", "network", "badJson"} :
                  (micTest.lifecycle = "mounted"
                     /\ MicWhisperSettles(a, outcome, NoBody))
                    => micTest'.isSuccess = "false"]_vars

\* A whitespace-only transcription was received and counted as a failure.
C30_Witness ==
    /\ micTest.lifecycle = "mounted"
    /\ \E a \in AttIds : micTest.atts[a].whisper = "done"
    /\ micTest.conversionResult # <<>> /\ trim(micTest.conversionResult) = <<>>
    /\ micTest.isSuccess = "false"

\* ---------------------------------------------------------------- C31
\* C31: the contact of every transcript delivery is derived from the digits of
\* the cached number: 11 digits give the groups 3-4-4, 10 digits the groups
\* 3-3-4, any other digit count gives the cached string itself, and a missing
\* or unparsable cache entry gives the empty contact.
C31_ContactFromCachedDigits ==
    \A i \in 1..Len(deliveries) :
        LET d == digitsOf(cache.contact)
            sent == deliveries[i].contact
        IN IF cache.kind # "json" THEN sent = <<>>
           ELSE IF Len(d) = 11
           THEN sent = SubSeq(d, 1, 3) \o <<"-">> \o SubSeq(d, 4, 7) \o <<"-">>
                         \o SubSeq(d, 8, 11)
           ELSE IF Len(d) = 10
           THEN sent = SubSeq(d, 1, 3) \o <<"-">> \o SubSeq(d, 4, 6) \o <<"-">>
                         \o SubSeq(d, 7, 10)
           ELSE sent = cache.contact

\* A transcript was delivered for a cached number of ten bare digits.
C31_Witness ==
    /\ Len(deliveries) > 0
    /\ cache.kind = "json" /\ cache.contact = SubSeq(DigitPool, 1, 10)
    /\ Len(deliveries[1].contact) = 12

\* ---------------------------------------------------------------- C32
\* C32: the contact of every transcript delivery is the number the keypad handed
\* to the intake of this wizard run, whatever became of the intake request.
C32_ContactIsEnteredNumber ==
    \A i \in 1..Len(deliveries) : deliveries[i].contact = page.intake.number

\* ---------------------------------------------------------------- C33
\* C33: a click that stops the recording and a click that ends the session
\* leave no animation frame of any capture scheduled, and a frame callback
\* changes none of recordingState, aiState, isProcessing and the transcript.
C33_NoFrameAfterStopOrEnd ==
    [][/\ (ClickEnd \/ (recordingState = 1 /\ ClickRecord))
            => \A k \in CapIds : ~caps'[k].frame
       /\ \A k \in CapIds :
             AnimationFrame(k)
               => UNCHANGED <<recordingState, aiState, isProcessing, qaLogs>>]_vars

\* ---------------------------------------------------------------- C34
\* C34: in the microphone self-test, once the five seconds of a recording have
\* run out (isTimerComplete) the recording has been ended: isRecording is false
\* and no recorder of the self-test records any more.
C34_AutoStopAfterFiveSeconds ==
    (micTest.lifecycle = "mounted" /\ micTest.isTimerComplete)
      => /\ ~micTest.isRecording
         /\ \A a \in AttIds : micTest.atts[a].recorder # "recording"

\* ---------------------------------------------------------------- C35
\* C35: while the component is mounted and no getUserMedia request is pending,
\* recordingState = 1 exactly when some recorder is recording on a live
\* stream; and no recorder records while recordingState = 0.
C35_RecordFlagMatchesCapture ==
    lifecycle = "mounted"
      => /\ PendingMics = {}
              => (recordingState = 1
                    <=> \E k \in CapIds : /\ caps[k].recorder = "recording"
                                            /\ caps[k].mic = "live")
         /\ recordingState = 0 => ActiveRecorders = {}

\* ---------------------------------------------------------------- C36
\* C36: whenever the Next button of the microphone self-test is enabled, the
\* transcription request of the most recent recording has settled and the text
\* it is judged by is non-empty after trimming.
C36_NextOnlyForLatestRecording ==
    LET recorded == {a \in AttIds : micTest.atts[a].recorder # "none"}
        latest == CHOOSE a \in recorded : \A b \in recorded : b <= a
    IN (/\ micTest.lifecycle = "mounted" /\ micTest.micPermission # "denied"
        /\ micTest.isRecordingComplete /\ micTest.isSuccess = "true")
         => /\ recorded # {}
            /\ micTest.atts[latest].whisper = "done"
            /\ trim(micTest.conversionResult) # <<>>

\* ---------------------------------------------------------------- C37
\* C37: the step in which the microphone self-test calls onComplete or is
\* unmounted leaves no stream live, no audio context running, no countdown
\* interval active and no animation frame scheduled among those it created.
C37_NothingActiveAfterSelfTest ==
    [][(MicClickNext \/ MicUnmount)
         => \A a \in AttIds : /\ micTest'.atts[a].mic # "live"
                               /\ micTest'.atts[a].ctx # "running"
                               /\ ~micTest'.atts[a].timer
                               /\ ~micTest'.atts[a].frame]_vars

\* ---------------------------------------------------------------- C38
\* C38: the keypad has called onComplete at most once, and only with a string
\* of 13 characters that reads 010-DDDD-DDDD, D a digit.
C38_OneValidCompletion ==
    /\ Len(numericPad.completions) <= 1
    /\ \A i \in 1..Len(numericPad.completions) :
          LET number == numericPad.completions[i]
          IN /\ Len(number) = 13
             /\ number[1] = "0" /\ number[2] = "1" /\ number[3] = "0"
             /\ number[4] = "-" /\ number[9] = "-"
             /\ \A j \in (5..8) \cup (10..13) :
                   number[j] \in {"0", "1", "2", "3", "4", "5", "6", "7", "8", "9"}

\* onComplete was called with a number that was typed, and the confirm button,
\* still enabled, can be pressed again.
C38_Witness ==
    /\ Len(numericPad.completions) = 1 /\ numericPad.isSubmitting
    /\ numericPad.completions[1] = numericPad.phoneNumber
    /\ ENABLED PressConfirm

\* ---------------------------------------------------------------- C39
\* C39: the entered string is always a prefix of the pattern 010-DDDD-DDDD (at
\* most 13 characters, hyphens exactly at positions 4 and 9, 0 1 0 before them,
\* digits elsewhere), and a delete on a string that ends in a hyphen removes
\* the hyphen and the character before it.
C39_PrefixOfPattern ==
    /\ [](LET str == numericPad.phoneNumber
          IN /\ Len(str) <= 13
             /\ \A i \in 1..Len(str) :
                   IF i \in {4, 9} THEN str[i] = "-"
                   ELSE IF i <= 3 THEN str[i] = <<"0", "1", "0">>[i]
                   ELSE str[i] \in {"0", "1", "2", "3", "4", "5", "6", "7", "8", "9"})
    /\ [][LET str == numericPad.phoneNumber
          IN (PressDelete /\ Len(str) >= 2 /\ str[Len(str)] = "-")
               => numericPad'.phoneNumber = SubSeq(str, 1, Len(str) - 2)]_vars

\* ---------------------------------------------------------------- C40
\* C40: currentStep stays within 0..4 and every step of the wizard leaves it
\* as it is or raises it by one; once the keypad has handed a number to the
\* intake, currentStep >= 1 is eventually reached, whatever the intake request
\* answers.
C40_StepsOnlyForward ==
    /\ [](page.currentStep \in 0..4)
    /\ [][page'.currentStep \in {page.currentStep, page.currentStep + 1}]_vars
    /\ (page.intake.pc = "pending") ~> (page.currentStep >= 1)

\* The wizard went from a failed intake through every step to the last one,
\* where the interview's completion call can come again.
C40_Witness ==
    /\ page.currentStep = 4 /\ page.intake.pc = "done" /\ ~page.isLoading
    /\ onCompleteCalls = 1
    /\ ENABLED InterviewCompletes

==============================================================================
